---------------------------- MODULE Spec2Model ----------------------------
(***************************************************************************)
(* A model of upsilonconf's Configuration (src/upsilonconf/config.py).     *)
(*                                                                         *)
(* Python objects live in a heap: heap[id] is one Configuration object,    *)
(* its `_content` an insertion-ordered sequence of <<key, value>> pairs.   *)
(* A value is a tagged record; a Configuration value is a reference        *)
(* [t |-> "ref", id |-> n] into the heap, so that sharing between two      *)
(* containers is something the model can express and a property decide.   *)
(* Strings are sequences of one-character strings, so that splitting a     *)
(* dotted key and validating a key are computed character by character.    *)
(* Every operation is an operator from a heap to a result record           *)
(* [h, err, ret]: the heap it leaves behind (also when it raises), the     *)
(* exception raised ("ok" for none) and the value returned.                *)
(***************************************************************************)
EXTENDS Integers, Sequences, FiniteSets, TLC

VARIABLES
    heap,   \* the objects: heap[id] is a Configuration's _content and attributes
    pre,    \* the heap as it was before the last operation
    c,      \* the configuration under test (an id of heap)
    d,      \* a second configuration, 0 while there is none
    dkind,  \* how d came about: "none", "new" (constructed) or "copy" (of c)
    last,   \* the last operation: its receiver, arguments, exception and result
    steps,  \* the number of operations applied so far
    world   \* what lies outside the process: a directory's files, a command line

vars == <<heap, pre, c, d, dkind, last, steps, world>>

-----------------------------------------------------------------------------
(* Bounds of the model *)

\* number of operations applied after construction
MaxSteps == 2

-----------------------------------------------------------------------------
(* Values *)

Ok == "ok"

IntV(n) == [t |-> "int", n |-> n]
NoneV == [t |-> "none"]
StrV(s) == [t |-> "str", s |-> s]
ListV(l) == [t |-> "list", l |-> l]
DictV(items) == [t |-> "dict", items |-> items]
Ref(id) == [t |-> "ref", id |-> id]

\* the two shapes of a key argument: a str, or a tuple of str
Str(s) == [t |-> "str", s |-> s]
Tup(p) == [t |-> "tup", p |-> p]

Res(h, err, ret) == [h |-> h, err |-> err, ret |-> ret]

EmptyObj == [content |-> <<>>, attrs |-> <<>>]

-----------------------------------------------------------------------------
(* Ordered dict helpers: a dict is a sequence of <<key, value>> pairs *)

Has(items, k) == \E i \in 1..Len(items) : items[i][1] = k

Lookup(items, k) == items[CHOOSE i \in 1..Len(items) : items[i][1] = k][2]

\* dict.__setitem__: a new key goes last, a present key keeps its place
DictSet(items, k, v) ==
    IF Has(items, k)
    THEN [i \in 1..Len(items) |-> IF items[i][1] = k THEN <<k, v>> ELSE items[i]]
    ELSE Append(items, <<k, v>>)

RECURSIVE DictDel(_, _)
DictDel(items, k) ==
    IF items = <<>> THEN <<>>
    ELSE IF Head(items)[1] = k THEN Tail(items)
    ELSE <<Head(items)>> \o DictDel(Tail(items), k)

Keys(items) == [i \in 1..Len(items) |-> items[i][1]]

-----------------------------------------------------------------------------
(* Strings *)

Letters == {"a", "b", "c", "d", "e", "f", "g", "h", "i", "j", "k", "l", "m",
            "n", "o", "p", "q", "r", "s", "t", "u", "v", "w", "x", "y", "z"}

Digits == {"0", "1", "2", "3", "4", "5", "6", "7", "8", "9"}

\* str.isidentifier, on the ASCII characters the model uses
isidentifier(key) ==
    /\ Len(key) > 0
    /\ key[1] \in Letters \cup {"_"}
    /\ \A i \in 1..Len(key) : key[i] \in Letters \cup Digits \cup {"_"}

RECURSIVE SplitAcc(_, _, _)
SplitAcc(s, cur, acc) ==
    IF s = <<>> THEN Append(acc, cur)
    ELSE IF Head(s) = "." THEN SplitAcc(Tail(s), <<>>, Append(acc, cur))
    ELSE SplitAcc(Tail(s), Append(cur, Head(s)), acc)

\* keys.split(".", 1): splits at the first dot only
split_once(s) ==
    IF \E i \in 1..Len(s) : s[i] = "."
    THEN LET i == CHOOSE j \in 1..Len(s) :
                      s[j] = "." /\ \A m \in 1..(j - 1) : s[m] # "."
         IN  <<SubSeq(s, 1, i - 1), SubSeq(s, i + 1, Len(s))>>
    ELSE <<s>>

\* keys.split(".")
split(s) == SplitAcc(s, <<>>, <<>>)

\* the public names of object.__dir__() of a Configuration: the methods of
\* MutableMapping and of the class itself
ClassDir == { <<"c","l","e","a","r">>, <<"g","e","t">>, <<"i","t","e","m","s">>,
              <<"k","e","y","s">>, <<"l","o","a","d">>,
              <<"o","v","e","r","w","r","i","t","e">>,
              <<"o","v","e","r","w","r","i","t","e","_","a","l","l">>,
              <<"p","o","p">>, <<"p","o","p","i","t","e","m">>,
              <<"s","a","v","e">>,
              <<"s","e","t","d","e","f","a","u","l","t">>,
              <<"u","p","d","a","t","e">>, <<"v","a","l","u","e","s">> }

\* super().__dir__(): the class's names and the instance's own attributes
ObjectDir(h, id) ==
    ClassDir \cup {<<"_","c","o","n","t","e","n","t">>}
             \cup {h[id].attrs[i][1] : i \in 1..Len(h[id].attrs)}

\* _validate_key without the test against the names in dir()
validate_key_no_reserved(h, id, key) ==
    IF Len(key) = 0 \/ key[1] \notin Letters THEN "InvalidKeyError"
    ELSE IF ~isidentifier(key) THEN "InvalidKeyError"
    ELSE Ok

\* Configuration._validate_key: "ok", or the exception it raises
validate_key(h, id, key) ==
    IF Len(key) = 0 \/ key[1] \notin Letters THEN "InvalidKeyError"
    ELSE IF ~isidentifier(key) THEN "InvalidKeyError"
    ELSE IF key \in ObjectDir(h, id) THEN "InvalidKeyError"
    ELSE Ok

-----------------------------------------------------------------------------
(* The mapping interface *)

IsMapping(v) == v.t \in {"dict", "ref"}

\* the key `self`
Self == <<"s", "e", "l", "f">>

\* the (key, value) pairs `**value` unpacks
Items(h, v) == IF v.t = "ref" THEN h[v.id].content ELSE v.items

key_parts(keys) == IF keys.t = "str" THEN split(keys.s) ELSE keys.p

RECURSIVE resolve_parents(_, _, _, _)
RECURSIVE getitem(_, _, _)
RECURSIVE setitem(_, _, _, _)
RECURSIVE Configuration(_, _)
RECURSIVE init_kwargs(_, _, _)

\* _resolve_key that creates missing sub-configurations whatever `create` is
resolve_key_always_create(h, id, keys, create) ==
    LET parts == key_parts(keys)
        found(r) == [h |-> r.h, err |-> r.err, conf |-> r.conf,
                     final |-> parts[Len(parts)]]
    IN  IF Len(parts) = 0
        THEN [h |-> h, err |-> "ValueError", conf |-> id, final |-> <<>>]
        ELSE found(resolve_parents(h, id, SubSeq(parts, 1, Len(parts) - 1), TRUE))

\* Configuration._resolve_key: [h, err, conf, final]
resolve_key(h, id, keys, create) ==
    LET parts == key_parts(keys)
        found(r) == [h |-> r.h, err |-> r.err, conf |-> r.conf,
                     final |-> parts[Len(parts)]]
    IN  IF Len(parts) = 0
        THEN [h |-> h, err |-> "ValueError", conf |-> id, final |-> <<>>]
        ELSE found(resolve_parents(h, id, SubSeq(parts, 1, Len(parts) - 1), create))

\* one turn of the loop of _resolve_key, for the parent segment k:
\* [h, err, conf], conf the configuration to go on from
descend(h, root, k, create) ==
    LET fail(h2, e) == [h |-> h2, err |-> e, conf |-> root]
        \* root = root[k], after root[k] = {}
        entered(g2) ==
            IF g2.err # Ok THEN fail(g2.h, g2.err)
            ELSE IF g2.ret.t # "ref" THEN fail(g2.h, "TypeError")
            ELSE [h |-> g2.h, err |-> Ok, conf |-> g2.ret.id]
        \* root[k] = {}
        created(s) ==
            IF s.err # Ok THEN fail(s.h, s.err)
            ELSE entered(getitem(s.h, root, k))
        \* root = root[k]
        looked(g) ==
            IF g.err = "KeyError"
            THEN IF ~create THEN fail(g.h, "KeyError")
                 ELSE created(setitem(g.h, root, k, DictV(<<>>)))
            ELSE IF g.err # Ok THEN fail(g.h, g.err)
            ELSE IF g.ret.t # "ref" THEN fail(g.h, "KeyError")
            ELSE [h |-> g.h, err |-> Ok, conf |-> g.ret.id]
    IN  looked(getitem(h, root, k))

\* the loop of _resolve_key over the parent segments
resolve_parents(h, root, parents, create) ==
    LET next(st) == IF st.err # Ok THEN st
                    ELSE resolve_parents(st.h, st.conf, Tail(parents), create)
    IN  IF parents = <<>> THEN [h |-> h, err |-> Ok, conf |-> root]
        ELSE next(descend(h, root, Str(Head(parents)), create))

\* Configuration.__getitem__
getitem(h, id, keys) ==
    LET read(r) ==
            IF r.err # Ok THEN Res(r.h, r.err, NoneV)
            ELSE IF Has(r.h[r.conf].content, r.final)
            THEN Res(r.h, Ok, Lookup(r.h[r.conf].content, r.final))
            ELSE Res(r.h, "KeyError", NoneV)
    IN  read(resolve_key(h, id, keys, FALSE))

\* conf._content.__setitem__(key, value)
store(h, id, key, value) ==
    Res([h EXCEPT ![id].content = DictSet(@, key, value)], Ok, NoneV)

\* __setitem__ without the duplicate test: a bound key is bound anew
setitem_rebinds(h, id, keys, value) ==
    LET wrapped(r, w) ==
            IF w.err = "TypeError" THEN store(r.h, r.conf, r.final, value)
            ELSE IF w.err # Ok THEN Res(w.h, w.err, NoneV)
            ELSE store(w.h, r.conf, r.final, w.ret)
        resolved(r) ==
            IF r.err # Ok THEN Res(r.h, r.err, NoneV)
            ELSE IF validate_key(r.h, r.conf, r.final) # Ok
            THEN Res(r.h, validate_key(r.h, r.conf, r.final), NoneV)
            ELSE wrapped(r, Configuration(r.h, value))
    IN  resolved(resolve_key(h, id, keys, TRUE))

\* __setitem__ with the duplicate test written `_content.get(key) is not
\* None`: a key bound to None counts as unbound
setitem_none_is_unbound(h, id, keys, value) ==
    LET wrapped(r, w) ==
            IF w.err = "TypeError" THEN store(r.h, r.conf, r.final, value)
            ELSE IF w.err # Ok THEN Res(w.h, w.err, NoneV)
            ELSE store(w.h, r.conf, r.final, w.ret)
        resolved(r) ==
            IF r.err # Ok THEN Res(r.h, r.err, NoneV)
            ELSE IF validate_key(r.h, r.conf, r.final) # Ok
            THEN Res(r.h, validate_key(r.h, r.conf, r.final), NoneV)
            ELSE IF /\ Has(r.h[r.conf].content, r.final)
                    /\ Lookup(r.h[r.conf].content, r.final) # NoneV
            THEN Res(r.h, "ValueError", NoneV)
            ELSE wrapped(r, Configuration(r.h, value))
    IN  resolved(resolve_key(h, id, keys, TRUE))

\* Configuration.__setitem__
setitem(h, id, keys, value) ==
    LET \* try: value = Configuration(**value) except TypeError: pass
        wrapped(r, w) ==
            IF w.err = "TypeError" THEN store(r.h, r.conf, r.final, value)
            ELSE IF w.err # Ok THEN Res(w.h, w.err, NoneV)
            ELSE store(w.h, r.conf, r.final, w.ret)
        resolved(r) ==
            IF r.err # Ok THEN Res(r.h, r.err, NoneV)
            ELSE IF validate_key(r.h, r.conf, r.final) # Ok
            THEN Res(r.h, validate_key(r.h, r.conf, r.final), NoneV)
            ELSE IF Has(r.h[r.conf].content, r.final) THEN Res(r.h, "ValueError", NoneV)
            ELSE wrapped(r, Configuration(r.h, value))
    IN  resolved(resolve_key(h, id, keys, TRUE))

\* Configuration(**value): a new object, bound key by key; TypeError when
\* `value` is no mapping, and when one of its keys is `self`, the name of
\* the first parameter of __init__(self, **kwargs)
Configuration(h, value) ==
    IF ~IsMapping(value) THEN Res(h, "TypeError", NoneV)
    ELSE IF Has(Items(h, value), Self) THEN Res(h, "TypeError", NoneV)
    ELSE init_kwargs(Append(h, EmptyObj), Len(h) + 1, Items(h, value))

\* the loop of Configuration.__init__ over kwargs
init_kwargs(h, id, kwargs) ==
    LET next(s) == IF s.err # Ok THEN Res(s.h, s.err, NoneV)
                   ELSE init_kwargs(s.h, id, Tail(kwargs))
    IN  IF kwargs = <<>> THEN Res(h, Ok, Ref(id))
        ELSE next(setitem(h, id, Str(kwargs[1][1]), kwargs[1][2]))

\* Configuration.__delitem__
delitem(h, id, keys) ==
    LET remove(r) ==
            IF r.err # Ok THEN Res(r.h, r.err, NoneV)
            ELSE IF Has(r.h[r.conf].content, r.final)
            THEN Res([r.h EXCEPT ![r.conf].content = DictDel(@, r.final)], Ok, NoneV)
            ELSE Res(r.h, "KeyError", NoneV)
    IN  remove(resolve_key(h, id, keys, FALSE))

\* MutableMapping.pop(key[, default]), inherited
pop(h, id, keys, default, hasDefault) ==
    LET deleted(g, dl) == Res(dl.h, dl.err, IF dl.err = Ok THEN g.ret ELSE NoneV)
        got(g) ==
            IF g.err = "KeyError"
            THEN IF hasDefault THEN Res(g.h, Ok, default) ELSE Res(g.h, "KeyError", NoneV)
            ELSE IF g.err # Ok THEN Res(g.h, g.err, NoneV)
            ELSE deleted(g, delitem(g.h, id, keys))
    IN  got(getitem(h, id, keys))

\* Mapping.get(key, default), inherited
get(h, id, keys, default) ==
    LET got(g) == IF g.err = "KeyError" THEN Res(g.h, Ok, default) ELSE g
    IN  got(getitem(h, id, keys))

BoolV(b) == [t |-> "bool", b |-> b]

\* Mapping.__contains__, inherited
contains(h, id, keys) ==
    LET got(g) == IF g.err = "KeyError" THEN Res(g.h, Ok, BoolV(FALSE))
                  ELSE IF g.err # Ok THEN g
                  ELSE Res(g.h, Ok, BoolV(TRUE))
    IN  got(getitem(h, id, keys))

\* `k, v = e` for one element of an iterable of pairs: [err, k, v]
unpack(h, e) ==
    LET bad(x) == [err |-> x, k |-> NoneV, v |-> NoneV] IN
    CASE e.t = "list" ->
           IF Len(e.l) = 2 THEN [err |-> Ok, k |-> e.l[1], v |-> e.l[2]]
           ELSE bad("ValueError")
      [] e.t = "str" ->
           IF Len(e.s) = 2
           THEN [err |-> Ok, k |-> StrV(<<e.s[1]>>), v |-> StrV(<<e.s[2]>>)]
           ELSE bad("ValueError")
      [] IsMapping(e) ->
           IF Len(Items(h, e)) = 2
           THEN [err |-> Ok, k |-> StrV(Items(h, e)[1][1]), v |-> StrV(Items(h, e)[2][1])]
           ELSE bad("ValueError")
      [] OTHER -> bad("TypeError")

\* the elements iterating over a non-mapping value yields; TypeError when
\* it is not iterable
Iterate(v) ==
    CASE v.t = "list" -> [err |-> Ok, elems |-> v.l]
      [] v.t = "str"  -> [err |-> Ok, elems |-> [i \in 1..Len(v.s) |-> StrV(<<v.s[i]>>)]]
      [] OTHER        -> [err |-> "TypeError", elems |-> <<>>]

\* the entries of `other` in iteration order, each [err, k, v]: a mapping's
\* items, or the unpacked elements of an iterable of pairs (err is the
\* exception unpacking the element raises)
Entries(h, other) ==
    IF IsMapping(other)
    THEN [i \in 1..Len(Items(h, other)) |->
            [err |-> Ok, k |-> StrV(Items(h, other)[i][1]), v |-> Items(h, other)[i][2]]]
    ELSE [i \in 1..Len(Iterate(other).elems) |-> unpack(h, Iterate(other).elems[i])]

KwEntries(kwargs) ==
    [i \in 1..Len(kwargs) |-> [err |-> Ok, k |-> StrV(kwargs[i][1]), v |-> kwargs[i][2]]]

RECURSIVE update_loop(_, _, _)
\* the loops of update: `self[key] = value` for each entry
update_loop(h, id, entries) ==
    LET next(s) == IF s.err # Ok THEN Res(s.h, s.err, NoneV)
                   ELSE update_loop(s.h, id, Tail(entries))
    IN  IF entries = <<>> THEN Res(h, Ok, NoneV)
        ELSE IF entries[1].err # Ok THEN Res(h, entries[1].err, NoneV)
        ELSE IF entries[1].k.t # "str" THEN Res(h, "TypeError", NoneV)
        ELSE next(setitem(h, id, Str(entries[1].k.s), entries[1].v))

\* MutableMapping.update(other, **kwargs), inherited
update(h, id, other, kwargs) ==
    IF ~IsMapping(other) /\ Iterate(other).err # Ok
    THEN Res(h, Iterate(other).err, NoneV)
    ELSE update_loop(h, id, Entries(h, other) \o KwEntries(kwargs))

RECURSIVE overwrite(_, _, _, _)
RECURSIVE overwrite_loop(_, _, _, _)

\* Configuration.overwrite_all: its loops, `old` being old_values so far
overwrite_loop(h, id, entries, old) ==
    LET next(o) == IF o.err # Ok THEN Res(o.h, o.err, NoneV)
                   ELSE overwrite_loop(o.h, id, Tail(entries),
                                       DictSet(old, entries[1].k.s, o.ret))
    IN  IF entries = <<>> THEN Res(h, Ok, DictV(old))
        ELSE IF entries[1].err # Ok THEN Res(h, entries[1].err, NoneV)
        ELSE IF entries[1].k.t # "str" THEN Res(h, "TypeError", NoneV)
        ELSE next(overwrite(h, id, Str(entries[1].k.s), entries[1].v))

\* Configuration.overwrite_all
overwrite_all(h, id, other, kwargs) ==
    IF ~IsMapping(other) /\ Iterate(other).err # Ok
    THEN Res(h, Iterate(other).err, NoneV)
    ELSE overwrite_loop(h, id, Entries(h, other) \o KwEntries(kwargs), <<>>)

\* overwrite that stops after old_value = self.pop(key, None)
overwrite_without_bind(h, id, keys, value) == pop(h, id, keys, NoneV, TRUE)

\* Configuration.overwrite
overwrite(h, id, keys, value) ==
    LET \* self.__setitem__(key, value); return old_value
        done(s, old) == Res(s.h, s.err, IF s.err = Ok THEN old ELSE NoneV)
        rebind(plan) ==
            IF plan.err # Ok THEN Res(plan.h, plan.err, NoneV)
            ELSE done(setitem(plan.h, id, keys, plan.value), plan.old)
        \* old_value = sub_conf.overwrite_all(value); value = sub_conf
        merged(p, sub, ow) ==
            IF ow.err = "TypeError"
            THEN [h |-> ow.h, err |-> Ok, value |-> value, old |-> p.ret]
            ELSE IF ow.err # Ok
            THEN [h |-> ow.h, err |-> ow.err, value |-> value, old |-> p.ret]
            ELSE [h |-> ow.h, err |-> Ok, value |-> sub.ret, old |-> ow.ret]
        \* sub_conf = Configuration(**old_value)
        copied(p, sub) ==
            IF sub.err = "TypeError"
            THEN [h |-> p.h, err |-> Ok, value |-> value, old |-> p.ret]
            ELSE IF sub.err # Ok
            THEN [h |-> sub.h, err |-> sub.err, value |-> value, old |-> p.ret]
            ELSE merged(p, sub, overwrite_all(sub.h, sub.ret.id, value, <<>>))
        \* old_value = self.pop(key, None)
        popped(p) ==
            IF p.err # Ok
            THEN [h |-> p.h, err |-> p.err, value |-> value, old |-> NoneV]
            ELSE copied(p, Configuration(p.h, p.ret))
    IN  rebind(popped(pop(h, id, keys, NoneV, TRUE)))

\* object.__setattr__: an ordinary attribute of the instance
object_setattr(h, id, name, value) ==
    Res([h EXCEPT ![id].attrs = DictSet(@, name, value)], Ok, NoneV)

\* Configuration.__setattr__
setattr(h, id, name, value) ==
    LET set(s) == IF s.err = "InvalidKeyError" THEN object_setattr(s.h, id, name, value)
                  ELSE IF s.err = "ValueError" THEN Res(s.h, "AttributeError", NoneV)
                  ELSE s
    IN  IF validate_key(h, id, name) # Ok THEN object_setattr(h, id, name, value)
        ELSE set(setitem(h, id, Str(name), value))

\* what reading a method or `_content` as an attribute gives
MethodV == [t |-> "method"]

\* r.name: the ordinary lookup (instance attributes, then the class), and
\* Configuration.__getattr__ when that finds nothing
getattr(h, id, name) ==
    LET got(g) == IF g.err = "KeyError" THEN Res(g.h, "AttributeError", NoneV) ELSE g
    IN  IF Has(h[id].attrs, name) THEN Res(h, Ok, Lookup(h[id].attrs, name))
        ELSE IF name \in ClassDir \cup {<<"_","c","o","n","t","e","n","t">>}
        THEN Res(h, Ok, MethodV)
        ELSE IF validate_key(h, id, name) # Ok THEN Res(h, "AttributeError", NoneV)
        ELSE got(getitem(h, id, Str(name)))

\* Configuration.__delattr__
delattr(h, id, name) ==
    LET deleted(x) == IF x.err = "KeyError" THEN Res(x.h, "AttributeError", NoneV) ELSE x
    IN  IF validate_key(h, id, name) # Ok THEN Res(h, "AttributeError", NoneV)
        ELSE deleted(delitem(h, id, Str(name)))

\* Configuration.__copy__
copy(h, id) == Configuration(h, Ref(id))

RECURSIVE deepcopy(_, _)
RECURSIVE deepcopy_items(_, _, _)

\* the loop of __deepcopy__: result[k] = copy.deepcopy(v, memo=memo).  The
\* memo only matters for an object met twice, and no operation of the model
\* binds one object under two keys of a tree, so it is left out.
deepcopy_items(h, result, items) ==
    LET bound(s) == IF s.err # Ok THEN Res(s.h, s.err, NoneV)
                    ELSE deepcopy_items(s.h, result, Tail(items))
        copied(cv) == IF cv.err # Ok THEN cv
                      ELSE bound(setitem(cv.h, result, Str(items[1][1]), cv.ret))
    IN  IF items = <<>> THEN Res(h, Ok, Ref(result))
        ELSE copied(IF items[1][2].t = "ref"
                    THEN deepcopy(h, items[1][2].id)
                    ELSE Res(h, Ok, items[1][2]))

\* __deepcopy__ that hands back the object itself
deepcopy_returns_self(h, id) == Res(h, Ok, Ref(id))

\* Configuration.__deepcopy__
deepcopy(h, id) == deepcopy_items(Append(h, EmptyObj), Len(h) + 1, h[id].content)

\* result.update(other); return result
merge_into(result, other) ==
    LET updated(u) == Res(u.h, u.err, IF u.err = Ok THEN result.ret ELSE NoneV)
    IN  IF result.err # Ok THEN result
        ELSE updated(update(result.h, result.ret.id, other, <<>>))

\* Configuration.__or__
or_op(h, self, other) == merge_into(Configuration(h, Ref(self)), other)

\* Configuration.__ror__
ror_op(h, self, other) == merge_into(Configuration(h, other), Ref(self))

\* Configuration.__ior__
ior_op(h, self, other) ==
    LET updated(u) == Res(u.h, u.err, IF u.err = Ok THEN Ref(self) ELSE NoneV)
    IN  IF ~IsMapping(other) THEN Res(h, "TypeError", NoneV)
        ELSE updated(update(h, self, ListV(<<>>), Items(h, other)))

-----------------------------------------------------------------------------
(* Views of the heap used to state properties *)

RECURSIVE TreeOf(_, _)
\* the value `v` with every reference replaced by the tree it points to
TreeOf(h, v) ==
    CASE v.t = "ref"  -> [t |-> "cfg",
                          items |-> [i \in 1..Len(h[v.id].content) |->
                                       <<h[v.id].content[i][1],
                                         TreeOf(h, h[v.id].content[i][2])>>]]
      [] v.t = "dict" -> [t |-> "dict",
                          items |-> [i \in 1..Len(v.items) |->
                                       <<v.items[i][1], TreeOf(h, v.items[i][2])>>]]
      [] v.t = "list" -> [t |-> "list", l |-> [i \in 1..Len(v.l) |-> TreeOf(h, v.l[i])]]
      [] OTHER        -> v

KeySet(items) == {items[i][1] : i \in 1..Len(items)}

RECURSIVE EqTree(_, _)
\* Python's == on two trees: mappings compare as unordered dicts
\* (Mapping.__eq__), sequences element by element
EqTree(x, y) ==
    CASE x.t \in {"cfg", "dict"} ->
           /\ y.t \in {"cfg", "dict"}
           /\ KeySet(x.items) = KeySet(y.items)
           /\ \A k \in KeySet(x.items) : EqTree(Lookup(x.items, k), Lookup(y.items, k))
      [] x.t = "list" ->
           /\ y.t = "list"
           /\ Len(x.l) = Len(y.l)
           /\ \A i \in 1..Len(x.l) : EqTree(x.l[i], y.l[i])
      [] OTHER -> x = y

-----------------------------------------------------------------------------
(* Inputs *)

S1(x) == Str(<<x>>)
Dot(x, y) == Str(<<x, ".", y>>)
Dot3(x, y, z) == Str(<<x, ".", y, ".", z>>)
Tup2(x, y) == Tup(<<x, y>>)
D1(k, v) == DictV(<< <<k, v>> >>)
D2(k, v, k2, v2) == DictV(<< <<k, v>>, <<k2, v2>> >>)
Hi == StrV(<<"h", "i">>)

\* the keyword arguments the configuration under test is constructed from
InitKwargs ==
    { DictV(<<>>),
      DictV(<< << <<"a">>, IntV(1) >>,
               << <<"n">>, NoneV >>,
               << <<"s">>, D2(<<"x">>, IntV(1),
                              <<"t">>, D2(<<"u">>, IntV(2), <<"w">>, IntV(3))) >>,
               << <<"l">>, ListV(<<IntV(1)>>) >> >>) }

\* an operation's receiver is c or d, or the sub-configuration c['s'] or d['s']
RecvPaths == {<<>>, <<"s">>}

Target(h, rootid, path) ==
    IF rootid = 0 THEN 0
    ELSE IF path = <<>> THEN rootid
    ELSE LET g == getitem(h, rootid, Str(path)) IN
         IF g.err = Ok /\ g.ret.t = "ref" THEN g.ret.id ELSE 0

RootId(root) == IF root = "c" THEN c ELSE d

Receivers ==
    { r \in [root : {"c", "d"}, path : RecvPaths] :
        Target(heap, RootId(r.root), r.path) # 0 }

SetKeys ==
    { S1("a"), S1("n"), S1("s"), S1("b"), S1("x"),
      Dot("s", "x"), Dot("s", "y"), Dot("q", "z"), Dot("a", "z"),
      Dot3("s", "t", "u"),
      Tup2(<<"s">>, <<"x">>), Tup2(<<"s">>, <<"y">>), Tup2(<<"q">>, <<"s", ".", "z">>),
      Str(<<>>), Str(<<"1", "a">>), Str(<<"_", "x">>), Str(<<"g", "e", "t">>),
      Str(<<"a", "-", "b">>), Str(<<"q", ".", "1", "a">>), Str(<<"1", "q", ".", "z">>),
      Str(Self) }

SetVals ==
    { IntV(7), NoneV, Hi, ListV(<<IntV(1)>>),
      D1(<<"y">>, IntV(7)),
      D1(<<"p">>, D1(<<"r">>, IntV(7))),
      D1(<<"p", ".", "r">>, IntV(7)),
      D1(<<"1", "a">>, IntV(7)),
      D1(Self, IntV(7)) }

SetInputs ==
    (SetKeys \X {IntV(7)}) \cup ({S1("b"), S1("n"), Dot("s", "y")} \X SetVals)

AttrInputs ==
    ({<<"a">>, <<"n">>, <<"b">>, <<"_", "x">>, <<"g", "e", "t">>} \X {IntV(7)})
      \cup {<< <<"k">>, D1(<<"1", "a">>, IntV(7)) >>}

UpdateInputs ==
    { D1(<<"b">>, IntV(7)),
      DictV(<< << <<"b">>, IntV(7) >>, << <<"a">>, IntV(8) >>, << <<"k">>, IntV(9) >> >>),
      D1(<<"s", ".", "x">>, IntV(8)),
      D1(<<"s", ".", "y">>, IntV(8)),
      D1(<<"n">>, D1(<<"z">>, IntV(1))),
      ListV(<< ListV(<<StrV(<<"k">>), IntV(7)>>) >>),
      IntV(5),
      D2(<<"q", ".", "z">>, IntV(1), <<"q">>, IntV(2)),
      D2(<<"b">>, IntV(7), <<"a", ".", "z">>, IntV(8)),
      D2(<<"s", ".", "y">>, IntV(9), <<"q", ".", "z">>, IntV(1)) }

OwKeys ==
    { S1("a"), S1("n"), S1("s"), S1("l"), S1("b"), S1("t"),
      Dot("s", "x"), Dot("s", "t"), Dot("q", "z"), Dot("a", "z"),
      Tup2(<<"s">>, <<"x">>) }

OwVals ==
    { IntV(7), NoneV, Hi, ListV(<<>>), ListV(<<IntV(1)>>),
      ListV(<< ListV(<<StrV(<<"x">>), IntV(9)>>) >>),
      D1(<<"x">>, IntV(9)),
      D1(<<"y">>, IntV(9)),
      D1(<<"t">>, D1(<<"u">>, IntV(9))),
      D1(<<"t", ".", "u">>, IntV(9)),
      D1(<<"t">>, IntV(5)),
      D1(<<"t">>, Hi),
      D1(<<"x">>, D1(<<"p">>, IntV(1))),
      D1(<<"1", "a">>, IntV(9)) }

OwInputs ==
    (OwKeys \X {IntV(7)}) \cup ({S1("s")} \X OwVals)
      \cup ({S1("a"), S1("b"), S1("t")} \X {D1(<<"u">>, IntV(9))})

OwAllInputs ==
    { D2(<<"a">>, IntV(7), <<"b">>, IntV(8)),
      D1(<<"s">>, D1(<<"x">>, IntV(9))),
      D2(<<"s", ".", "x">>, IntV(9), <<"q", ".", "z">>, IntV(1)),
      D2(<<"b">>, IntV(7), <<"1", "a">>, IntV(1)),
      ListV(<< ListV(<<StrV(<<"a">>), IntV(7)>>) >>),
      D2(<<"q", ".", "z">>, IntV(1), <<"q">>, IntV(2)),
      D2(<<"b">>, IntV(7), <<"a", ".", "z">>, IntV(8)),
      D2(<<"s", ".", "y">>, IntV(9), <<"q", ".", "z">>, IntV(1)) }

OwAllKwargs == { <<>>, << << <<"a">>, IntV(9) >> >> }

ReadKeys ==
    { S1("a"), S1("n"), S1("s"), S1("b"),
      Dot("s", "x"), Dot("s", "z"), Dot("q", "z"), Dot("a", "z"),
      Dot3("s", "t", "u"), Dot3("s", "x", "u"),
      Tup2(<<"s">>, <<"x">>), Tup2(<<"s">>, <<"z">>),
      Tup2(<<"s">>, <<"t", ".", "u">>), Tup2(<<"s", ".", "t">>, <<"u">>) }

MergeKwargs ==
    { DictV(<<>>),
      D1(<<"y">>, IntV(2)),
      D2(<<"y">>, IntV(2), <<"a">>, IntV(5)),
      D2(<<"y">>, IntV(2), <<"s">>, D1(<<"x">>, IntV(9))) }

-----------------------------------------------------------------------------
(* The state machine *)

NoArg == NoneV

Record(op, r, k, v, res) ==
    [op |-> op, root |-> r.root, path |-> r.path,
     recv |-> Target(heap, RootId(r.root), r.path),
     key |-> k, value |-> v, err |-> res.err, ret |-> res.ret]

\* apply an operation with result `res` to the receiver r
Apply(op, r, k, v, res) ==
    /\ steps < MaxSteps
    /\ heap' = res.h
    /\ pre' = heap
    /\ last' = Record(op, r, k, v, res)
    /\ steps' = steps + 1
    /\ UNCHANGED world

\* the operations on a Configuration read no file and no command line
NoWorld == [kind |-> "none"]

OnC == [root |-> "c", path |-> <<>>]

Init ==
    /\ \E kw \in InitKwargs : heap = Configuration(<<>>, kw).h
    /\ pre = heap
    /\ c = 1
    /\ d = 0
    /\ dkind = "none"
    /\ last = [op |-> "init", root |-> "c", path |-> <<>>, recv |-> 1,
               key |-> NoArg, value |-> NoArg, err |-> Ok, ret |-> NoneV]
    /\ steps = 0
    /\ world = NoWorld

\* r[key] = value
DoSetItem ==
    /\ \E r \in Receivers, kv \in SetInputs :
         Apply("setitem", r, kv[1], kv[2],
               setitem(heap, Target(heap, RootId(r.root), r.path), kv[1], kv[2]))
    /\ UNCHANGED <<c, d, dkind>>

\* r.name = value
DoSetAttr ==
    /\ \E r \in Receivers, nv \in AttrInputs :
         Apply("setattr", r, Str(nv[1]), nv[2],
               setattr(heap, Target(heap, RootId(r.root), r.path), nv[1], nv[2]))
    /\ UNCHANGED <<c, d, dkind>>

\* the names read and deleted as attributes
AttrNamesRead == {<<"a">>, <<"s">>, <<"b">>, <<"k">>, <<"_", "x">>, <<"g", "e", "t">>}

\* c.name
DoGetAttr ==
    /\ \E n \in AttrNamesRead : Apply("getattr", OnC, Str(n), NoArg, getattr(heap, c, n))
    /\ UNCHANGED <<c, d, dkind>>

\* del c.name
DoDelAttr ==
    /\ \E n \in AttrNamesRead : Apply("delattr", OnC, Str(n), NoArg, delattr(heap, c, n))
    /\ UNCHANGED <<c, d, dkind>>

\* r.update(other)
DoUpdate ==
    /\ \E r \in Receivers, o \in UpdateInputs :
         Apply("update", r, NoArg, o,
               update(heap, Target(heap, RootId(r.root), r.path), o, <<>>))
    /\ UNCHANGED <<c, d, dkind>>

\* del r[key]
DoDelItem ==
    /\ \E r \in Receivers, k \in ReadKeys :
         Apply("delitem", r, k, NoArg,
               delitem(heap, Target(heap, RootId(r.root), r.path), k))
    /\ UNCHANGED <<c, d, dkind>>

\* r.overwrite(key, value)
DoOverwrite ==
    /\ \E r \in Receivers, kv \in OwInputs :
         Apply("overwrite", r, kv[1], kv[2],
               overwrite(heap, Target(heap, RootId(r.root), r.path), kv[1], kv[2]))
    /\ UNCHANGED <<c, d, dkind>>

\* r.overwrite_all(other, **kwargs)
DoOverwriteAll ==
    /\ \E r \in Receivers, o \in OwAllInputs, kw \in OwAllKwargs :
         Apply("overwrite_all", r, DictV(kw), o,
               overwrite_all(heap, Target(heap, RootId(r.root), r.path), o, kw))
    /\ UNCHANGED <<c, d, dkind>>

\* c[key]
DoGetItem ==
    /\ \E k \in ReadKeys : Apply("getitem", OnC, k, NoArg, getitem(heap, c, k))
    /\ UNCHANGED <<c, d, dkind>>

\* key in c
DoContains ==
    /\ \E k \in ReadKeys : Apply("contains", OnC, k, NoArg, contains(heap, c, k))
    /\ UNCHANGED <<c, d, dkind>>

\* c.get(key)
DoGet ==
    /\ \E k \in ReadKeys : Apply("get", OnC, k, NoneV, get(heap, c, k, NoneV))
    /\ UNCHANGED <<c, d, dkind>>

\* c.pop(key) and c.pop(key, 0)
DoPop ==
    /\ \E k \in ReadKeys, hasDefault \in BOOLEAN :
         Apply(IF hasDefault THEN "pop_default" ELSE "pop", OnC, k, IntV(0),
               pop(heap, c, k, IntV(0), hasDefault))
    /\ UNCHANGED <<c, d, dkind>>

\* d = Configuration(**kw)
DoNew ==
    /\ d = 0
    /\ \E kw \in MergeKwargs :
         LET res == Configuration(heap, kw) IN
         /\ res.err = Ok
         /\ Apply("new", OnC, NoArg, kw, res)
         /\ d' = res.ret.id
    /\ dkind' = "new"
    /\ UNCHANGED c

\* d = copy.copy(c)
DoCopy ==
    /\ d = 0
    /\ LET res == copy(heap, c) IN
       /\ Apply("copy", OnC, NoArg, NoArg, res)
       /\ d' = IF res.err = Ok THEN res.ret.id ELSE 0
       /\ dkind' = IF res.err = Ok THEN "copy" ELSE "none"
    /\ UNCHANGED c

\* d = copy.deepcopy(c)
DoDeepCopy ==
    /\ d = 0
    /\ LET res == deepcopy(heap, c) IN
       /\ Apply("deepcopy", OnC, NoArg, NoArg, res)
       /\ d' = IF res.err = Ok THEN res.ret.id ELSE 0
       /\ dkind' = IF res.err = Ok THEN "deepcopy" ELSE "none"
    /\ UNCHANGED c

\* d = Configuration(**kw); c | d
DoOr ==
    /\ d = 0
    /\ steps < MaxSteps
    /\ \E kw \in MergeKwargs :
         LET b   == Configuration(heap, kw)
             res == or_op(b.h, c, b.ret)
         IN  /\ b.err = Ok
             /\ heap' = res.h
             /\ pre' = b.h
             /\ d' = b.ret.id
             /\ last' = [op |-> "or", root |-> "c", path |-> <<>>, recv |-> c,
                         key |-> NoArg, value |-> b.ret,
                         err |-> res.err, ret |-> res.ret]
    /\ dkind' = "new"
    /\ steps' = steps + 1
    /\ UNCHANGED <<c, world>>

\* other | c, for a plain dict `other`
DoRor ==
    /\ \E o \in MergeKwargs : Apply("ror", OnC, NoArg, o, ror_op(heap, c, o))
    /\ UNCHANGED <<c, d, dkind>>

\* c |= d
DoIor ==
    /\ dkind = "new"
    /\ Apply("ior", OnC, NoArg, Ref(d), ior_op(heap, c, Ref(d)))
    /\ UNCHANGED <<c, d, dkind>>

Next ==
    \/ DoSetItem
    \/ DoSetAttr
    \/ DoGetAttr
    \/ DoDelAttr
    \/ DoUpdate
    \/ DoDelItem
    \/ DoOverwrite
    \/ DoOverwriteAll
    \/ DoGetItem
    \/ DoContains
    \/ DoGet
    \/ DoPop
    \/ DoNew
    \/ DoCopy
    \/ DoDeepCopy
    \/ DoOr
    \/ DoRor
    \/ DoIor

Spec == Init /\ [][Next]_vars

-----------------------------------------------------------------------------
(* Paths into a configuration, for stating properties *)

RECURSIVE Paths(_, _)
\* every path of keys that leads from object id to a binding
Paths(h, id) ==
    UNION { LET k == h[id].content[i][1]
                v == h[id].content[i][2]
            IN  {<<k>>} \cup (IF v.t = "ref"
                              THEN {<<k>> \o p : p \in Paths(h, v.id)}
                              ELSE {})
            : i \in 1..Len(h[id].content) }

RECURSIVE At(_, _, _)
\* the value bound at a path of Paths(h, id)
At(h, id, path) ==
    IF Len(path) = 1 THEN Lookup(h[id].content, path[1])
    ELSE At(h, Lookup(h[id].content, path[1]).id, Tail(path))

Roots == {c, d} \ {0}

Bound(h, id, keys) == getitem(h, id, keys).err = Ok

-----------------------------------------------------------------------------
(* C1 *)

NormalOps == {"setitem", "setattr", "update"}

\* C1: an item assignment, attribute assignment or update never rebinds: every
\* binding there was before it, at any depth, is still there with the value it
\* had; and an item assignment to a key that resolves to a binding (plain,
\* dotted or tuple key, also one bound to None) raises ValueError and changes
\* nothing.
C1_WriteOnce ==
    last.op \in NormalOps =>
      /\ \A root \in Roots : \A p \in Paths(pre, root) :
            /\ p \in Paths(heap, root)
            /\ At(heap, root, p) = At(pre, root, p)
      /\ (last.op = "setitem" /\ Bound(pre, last.recv, last.key)) =>
            (last.err = "ValueError" /\ heap = pre)

\* an item assignment to a key bound to None has raised ValueError
C1_Witness ==
    /\ last.op = "setitem"
    /\ Bound(pre, last.recv, last.key)
    /\ getitem(pre, last.recv, last.key).ret = NoneV
    /\ last.err = "ValueError"
    /\ getitem(heap, last.recv, last.key).ret = NoneV

-----------------------------------------------------------------------------
(* The key rule and the values an assignment accepts *)

\* a key is well formed: non-empty, starts with a letter, holds only letters,
\* digits and underscore, and is no method name of the class
NameRule(k) ==
    /\ Len(k) > 0
    /\ k[1] \in Letters
    /\ \A i \in 1..Len(k) : k[i] \in Letters \cup Digits \cup {"_"}
    /\ k \notin ClassDir

RECURSIVE PlainValue(_)
\* a value whose mappings, at every depth, have well-formed undotted keys
PlainValue(v) ==
    v.t = "dict" =>
        \A i \in 1..Len(v.items) :
            NameRule(v.items[i][1]) /\ PlainValue(v.items[i][2])

-----------------------------------------------------------------------------
(* C2 *)

\* C2: overwrite(k, v2) on a bound key k succeeds and returns the value k was
\* bound to before the call, whatever that value and v2 are; on a key that was
\* not bound it returns None and binds k to v2.  Stated for values and keys a
\* plain assignment accepts, and leaving the returned value open where a
\* mapping is merged into a sub-configuration.
C2_OverwriteReturnsPrior ==
    LET before == getitem(pre, last.recv, last.key)
        after  == getitem(heap, last.recv, last.key)
        v2     == last.value
    IN  (last.op = "overwrite" /\ PlainValue(v2)) =>
          IF before.err = Ok
          THEN /\ last.err = Ok
               /\ after.err = Ok
               /\ (before.ret.t = "ref" /\ v2.t = "dict")
                    \/ EqTree(TreeOf(heap, last.ret), TreeOf(pre, before.ret))
          ELSE setitem(pre, last.recv, last.key, v2).err = Ok =>
                 /\ last.err = Ok
                 /\ last.ret = NoneV
                 /\ after.err = Ok
                 /\ EqTree(TreeOf(heap, after.ret), TreeOf(heap, v2))

-----------------------------------------------------------------------------
(* C3 *)

RECURSIVE HoldsAll(_, _, _)
\* every entry of the mapping v is found in configuration id, mappings in v
\* being looked into entry by entry
HoldsAll(h, id, v) ==
    \A i \in 1..Len(v.items) :
        LET g == getitem(h, id, Str(v.items[i][1]))
            x == v.items[i][2]
        IN  /\ g.err = Ok
            /\ IF x.t = "dict"
               THEN g.ret.t = "ref" /\ HoldsAll(h, g.ret.id, x)
               ELSE g.ret = x

\* C3: overwrite(k, v) with k bound to a sub-configuration S and v a mapping
\* succeeds as a deep merge: keys of S that v does not name keep their values,
\* every key of v holds v's value (recursively for mappings), and the call
\* returns a mapping from each key of v to what S bound it to before (None if
\* nothing).  Stated for mappings v a plain assignment accepts; where a
\* mapping of v meets a sub-configuration of S the returned entry is only
\* required to be there.
C3_OverwriteDeepMerge ==
    LET before == getitem(pre, last.recv, last.key)
        after  == getitem(heap, last.recv, last.key)
        v      == last.value
    IN  (/\ last.op = "overwrite"
         /\ before.err = Ok /\ before.ret.t = "ref"
         /\ v.t = "dict" /\ PlainValue(v))
        =>
        /\ last.err = Ok
        /\ after.err = Ok /\ after.ret.t = "ref"
        /\ \A p \in Paths(pre, before.ret.id) :
              (Len(p) = 1 /\ p[1] \notin KeySet(v.items))
                => /\ p \in Paths(heap, after.ret.id)
                   /\ EqTree(TreeOf(heap, At(heap, after.ret.id, p)),
                             TreeOf(pre, At(pre, before.ret.id, p)))
        /\ HoldsAll(heap, after.ret.id, v)
        /\ last.ret.t = "dict"
        /\ KeySet(last.ret.items) = KeySet(v.items)
        /\ \A k \in KeySet(v.items) :
              LET old == getitem(pre, before.ret.id, Str(k))
                  got == Lookup(last.ret.items, k)
              IN  IF old.err # Ok THEN got = NoneV
                  ELSE (old.ret.t = "ref" /\ Lookup(v.items, k).t = "dict")
                         \/ EqTree(TreeOf(heap, got), TreeOf(pre, old.ret))

-----------------------------------------------------------------------------
(* C4 *)

RECURSIVE StoredAsConfiguration(_, _, _)
\* x is what the heap holds for the value v: a Configuration for a mapping,
\* entry by entry
StoredAsConfiguration(h, x, v) ==
    v.t = "dict" =>
        /\ x.t = "ref"
        /\ \A i \in 1..Len(v.items) :
              /\ Has(h[x.id].content, v.items[i][1])
              /\ StoredAsConfiguration(h, Lookup(h[x.id].content, v.items[i][1]),
                                       v.items[i][2])

\* C4: after c[k] = v, for a well-formed plain key k that was not bound, the
\* read c[k] equals v, and a mapping v is stored, at every depth, as a nested
\* Configuration.  Stated for values v whose mappings have well-formed
\* undotted keys at every depth.
C4_SetThenGet ==
    (/\ last.op = "setitem"
     /\ last.key.t = "str"
     /\ NameRule(last.key.s)
     /\ validate_key(pre, last.recv, last.key.s) = Ok
     /\ ~Has(pre[last.recv].content, last.key.s)
     /\ PlainValue(last.value))
    =>
    LET after == getitem(heap, last.recv, last.key) IN
    /\ last.err = Ok
    /\ after.err = Ok
    /\ EqTree(TreeOf(heap, after.ret), TreeOf(heap, last.value))
    /\ StoredAsConfiguration(heap, after.ret, last.value)

-----------------------------------------------------------------------------
(* C5 *)

\* the keys bound anywhere in the heap, and one that is bound nowhere
Segments(h) ==
    UNION {KeySet(h[i].content) : i \in 1..Len(h)} \cup {<<"z", "z">>}

Dotted(x, y) == x \o <<".">> \o y

Outcome(r) == <<r.err, r.ret>>

\* what a read of key y in the configuration `id` must give
Direct(h, id, y) ==
    IF Has(h[id].content, y) THEN <<Ok, Lookup(h[id].content, y)>>
    ELSE <<"KeyError", NoneV>>

\* C5: whenever a key x of a configuration is bound to a Configuration, the
\* dotted read c['x.y'], the tuple read c[('x', 'y')] and the chained read
\* c['x']['y'] give the same outcome for every segment y: the value bound to y
\* in c['x'], or KeyError when there is none; likewise one level further down,
\* for c['x.y.z'], c[('x', 'y', 'z')], c['x']['y.z'], c['x.y']['z'] and
\* c['x']['y']['z'] when c['x']['y'] is a Configuration too.
C5_DottedKeyEquivalence ==
    \A root \in Roots : \A x \in KeySet(heap[root].content) :
      LET a == Lookup(heap[root].content, x) IN
      a.t = "ref" =>
        \A y \in Segments(heap) :
          LET chained == getitem(heap, a.id, Str(y)) IN
          /\ Outcome(chained) = Direct(heap, a.id, y)
          /\ Outcome(getitem(heap, root, Str(Dotted(x, y)))) = Outcome(chained)
          /\ Outcome(getitem(heap, root, Tup(<<x, y>>))) = Outcome(chained)
          /\ (chained.err = Ok /\ chained.ret.t = "ref") =>
               \A z \in Segments(heap) :
                 LET deep == getitem(heap, chained.ret.id, Str(z)) IN
                 /\ Outcome(deep) = Direct(heap, chained.ret.id, z)
                 /\ Outcome(getitem(heap, root, Str(Dotted(x, Dotted(y, z)))))
                      = Outcome(deep)
                 /\ Outcome(getitem(heap, root, Tup(<<x, y, z>>))) = Outcome(deep)
                 /\ Outcome(getitem(heap, a.id, Str(Dotted(y, z)))) = Outcome(deep)
                 /\ Outcome(getitem(heap, chained.ret.id, Str(z))) = Outcome(deep)

\* the read c['s.t.u'] has returned the value that c[('s', 't', 'u')] and
\* c['s']['t']['u'] give, after the configuration was changed
C5_Witness ==
    /\ last.op = "getitem"
    /\ last.key = Dot3("s", "t", "u")
    /\ last.err = Ok
    /\ steps = 2
    /\ Outcome(getitem(heap, c, Tup(<<<<"s">>, <<"t">>, <<"u">>>>))) = <<Ok, last.ret>>
    /\ LET s == Lookup(heap[c].content, <<"s">>)
           t == Lookup(heap[s.id].content, <<"t">>)
       IN  Lookup(heap[t.id].content, <<"u">>) = last.ret

-----------------------------------------------------------------------------
(* C6 *)

RECURSIVE SplitAll(_)
\* the segments a sequence of parent keys stands for
SplitAll(ps) == IF ps = <<>> THEN <<>> ELSE split(Head(ps)) \o SplitAll(Tail(ps))

\* the intermediate segments of a composite key: all but the last one
ParentSegments(keys) ==
    LET parts == key_parts(keys) IN
    IF keys.t = "str" THEN SubSeq(parts, 1, Len(parts) - 1)
    ELSE SplitAll(SubSeq(parts, 1, Len(parts) - 1))

RECURSIVE Walk(_, _, _)
\* how far the intermediate segments lead: "ok" when each is bound to a
\* Configuration, else what the first one that is not is: "unbound" or "scalar"
Walk(h, id, segs) ==
    IF segs = <<>> THEN "ok"
    ELSE IF ~Has(h[id].content, Head(segs)) THEN "unbound"
    ELSE IF Lookup(h[id].content, Head(segs)).t # "ref" THEN "scalar"
    ELSE Walk(h, Lookup(h[id].content, Head(segs)).id, Tail(segs))

ReadOps == {"getitem", "delitem", "contains", "get", "pop", "pop_default"}

RaisingOps == {"getitem", "delitem", "pop", "setitem", "overwrite"}

\* no object and no key has been added, and what is still bound is unchanged
NothingAdded ==
    /\ Len(heap) = Len(pre)
    /\ \A id \in 1..Len(heap) :
          /\ heap[id].attrs = pre[id].attrs
          /\ \A k \in KeySet(heap[id].content) :
                /\ Has(pre[id].content, k)
                /\ Lookup(heap[id].content, k) = Lookup(pre[id].content, k)

\* C6: a read, a delete, a membership test, a get and a pop add no key and no
\* sub-configuration at any level; with an intermediate segment that is not
\* bound they change nothing, and getitem, delitem and pop raise KeyError
\* (contains and get, which catch it, give False and the default); with an
\* intermediate segment bound to something that is no Configuration, reads and
\* writes alike raise KeyError and change nothing; an item assignment that
\* succeeds has created the intermediate sub-configurations that were missing.
C6_CreateOnlyOnWrite ==
    /\ last.op \in ReadOps => NothingAdded
    /\ last.op \in {"getitem", "contains", "get"} => heap = pre
    /\ (last.op \in ReadOps /\ Walk(pre, last.recv, ParentSegments(last.key)) = "unbound")
         => /\ heap = pre
            /\ last.op \in {"getitem", "delitem", "pop"} => last.err = "KeyError"
            /\ last.op = "contains" => (last.err = Ok /\ last.ret = BoolV(FALSE))
            /\ last.op \in {"get", "pop_default"} =>
                 (last.err = Ok /\ last.ret = last.value)
    /\ (/\ last.op \in ReadOps \cup RaisingOps
        /\ Walk(pre, last.recv, ParentSegments(last.key)) = "scalar")
         => /\ heap = pre
            /\ last.op \in RaisingOps => last.err = "KeyError"
    /\ (/\ last.op = "setitem"
        /\ last.err = Ok
        /\ Walk(pre, last.recv, ParentSegments(last.key)) = "unbound")
         => Walk(heap, last.recv, ParentSegments(last.key)) = "ok"

\* a delete through an intermediate segment that is not bound has raised
\* KeyError and the segment is still not bound
C6_Witness ==
    /\ last.op = "delitem"
    /\ last.key = Dot("q", "z")
    /\ Walk(pre, last.recv, ParentSegments(last.key)) = "unbound"
    /\ last.err = "KeyError"
    /\ ~Has(heap[last.recv].content, <<"q">>)
    /\ heap = pre

-----------------------------------------------------------------------------
(* C7 *)

\* the names of the attributes of the object itself
AttrNames(h, id) == {h[id].attrs[i][1] : i \in 1..Len(h[id].attrs)}

Leaf(keys) == key_parts(keys)[Len(key_parts(keys))]

\* C7: every key bound in any configuration, at any depth, is non-empty,
\* starts with a letter, holds only letters, digits and underscore and is the
\* name of no method and of no attribute of its container; an item assignment
\* whose leaf key breaks the rule fails, with InvalidKeyError whenever the
\* intermediate segments are well formed and lead to the owner, and then
\* nothing is bound in the owner.
C7_KeyValidity ==
    /\ \A id \in 1..Len(heap) : \A k \in KeySet(heap[id].content) :
          NameRule(k) /\ k \notin AttrNames(heap, id)
    /\ (last.op = "setitem" /\ ~NameRule(Leaf(last.key))) =>
          LET segs == ParentSegments(last.key)
              w    == Walk(pre, last.recv, segs)
          IN  /\ last.err # Ok
              /\ w = "ok" => (last.err = "InvalidKeyError" /\ heap = pre)
              /\ (w = "unbound" /\ \A i \in 1..Len(segs) : NameRule(segs[i])) =>
                    /\ last.err = "InvalidKeyError"
                    /\ Walk(heap, last.recv, segs) = "ok"
                    /\ LET g == getitem(heap, last.recv, Tup(segs)) IN
                       g.err = Ok /\ g.ret.t = "ref" /\ heap[g.ret.id].content = <<>>

\* an item assignment to the method name 'get' has raised InvalidKeyError
C7_Witness ==
    /\ last.op = "setitem"
    /\ last.key = Str(<<"g", "e", "t">>)
    /\ last.err = "InvalidKeyError"
    /\ ~Has(heap[last.recv].content, <<"g", "e", "t">>)
    /\ heap = pre

-----------------------------------------------------------------------------
(* C8 *)

MergeOps == {"or", "ror", "ior"}

\* the operands of the last merge: c | d, other | c, c |= d
LeftOf == IF last.op = "ror" THEN last.value ELSE Ref(c)

RightOf == IF last.op = "ror" THEN Ref(c) ELSE last.value

TopKeys(h, v) == KeySet(Items(h, v))

SharedKeys == TopKeys(pre, LeftOf) \cap TopKeys(pre, RightOf)

\* what the merge produced: the new configuration, or c itself for |=
MergeResult == IF last.op = "ior" THEN Ref(c) ELSE last.ret

\* the objects there were before the last operation are as they were
OldObjectsUnchanged == \A id \in 1..Len(pre) : heap[id] = pre[id]

\* C8 as it stands: a merge of operands that share a key succeeds, and in the
\* result every shared key is bound to the right-hand side's value.
C8_MergePermissive ==
    (last.op \in MergeOps /\ SharedKeys # {}) =>
        /\ last.err = Ok
        /\ \A k \in SharedKeys :
              EqTree(TreeOf(heap, Lookup(Items(heap, MergeResult), k)),
                     TreeOf(pre, Lookup(Items(pre, RightOf), k)))

\* C8, amended: a merge of operands that share a key raises, for each of the
\* three operators: ValueError from the first bind of a shared key, or
\* TypeError before that when the left operand of | or of the reflected form
\* has a key `self` and cannot be copied; no binding of either operand is
\* changed or removed, and a | b and the reflected form leave both operands
\* as they were.
C8_MergeStrict ==
    (last.op \in MergeOps /\ SharedKeys # {}) =>
        /\ last.err = IF last.op # "ior" /\ Self \in TopKeys(pre, LeftOf)
                      THEN "TypeError" ELSE "ValueError"
        /\ \A root \in Roots : \A p \in Paths(pre, root) :
              /\ p \in Paths(heap, root)
              /\ At(heap, root, p) = At(pre, root, p)
        /\ last.op # "ior" => OldObjectsUnchanged

\* c |= d with a shared key has raised ValueError after binding in c the key
\* of d that came before the shared one
C8_Witness ==
    /\ last.op = "ior"
    /\ SharedKeys # {}
    /\ last.err = "ValueError"
    /\ Has(heap[c].content, <<"y">>)
    /\ ~Has(pre[c].content, <<"y">>)

-----------------------------------------------------------------------------
(* C9 *)

\* C9: a | b raises ValueError when a and b share a top-level key; when they
\* share none it gives a new configuration that holds a's entries followed by
\* b's; a and b are unchanged either way.
C9_OrStrict ==
    last.op = "or" =>
        /\ OldObjectsUnchanged
        /\ IF SharedKeys # {} THEN last.err = "ValueError"
           ELSE /\ last.err = Ok
                /\ last.ret.t = "ref"
                /\ last.ret.id > Len(pre)
                /\ Keys(heap[last.ret.id].content)
                     = Keys(pre[c].content) \o Keys(pre[last.value.id].content)
                /\ EqTree(TreeOf(heap, last.ret),
                          [t |-> "cfg",
                           items |-> TreeOf(pre, Ref(c)).items
                                       \o TreeOf(pre, last.value).items])

-----------------------------------------------------------------------------
(* C10 *)

\* C10: a shallow copy is a new configuration with the top-level bindings of
\* the original, its sub-configurations being the very objects the original
\* holds; so after a successful binding, overwrite or delete inside d['s'],
\* d being the copy, c['s'] shows the same content, while a change of a
\* top-level key of d leaves c as it was.
C10_ShallowCopyShares ==
    /\ last.op = "copy" =>
          /\ last.err = Ok
          /\ d # c
          /\ heap[d].content = heap[c].content
    /\ (/\ dkind = "copy"
        /\ last.op \in {"setitem", "overwrite", "delitem"}
        /\ last.root = "d"
        /\ last.err = Ok)
       => IF last.path = <<"s">>
          THEN TreeOf(heap, Lookup(heap[c].content, <<"s">>))
                 = TreeOf(heap, Lookup(heap[d].content, <<"s">>))
          ELSE Len(key_parts(last.key)) = 1 => heap[c] = pre[c]

-----------------------------------------------------------------------------
(* C11 *)

RECURSIVE Reach(_, _)
\* the objects a configuration is made of: itself and its sub-configurations
Reach(h, id) ==
    {id} \cup UNION { IF h[id].content[i][2].t = "ref"
                      THEN Reach(h, h[id].content[i][2].id) ELSE {}
                      : i \in 1..Len(h[id].content) }

MutatingOps == {"setitem", "setattr", "update", "delitem", "overwrite",
                "overwrite_all", "pop", "pop_default", "ior"}

\* C11: d = deepcopy(c) succeeds and gives a new configuration equal to c;
\* from then on c and d have no object in common, and an assignment,
\* overwrite, update or delete applied to one of them or to a
\* sub-configuration of it, whether it succeeds or raises, leaves every
\* object of the other as it was.
C11_DeepCopyIndependent ==
    /\ last.op = "deepcopy" =>
          /\ last.err = Ok
          /\ d # c
          /\ d > Len(pre)
          /\ EqTree(TreeOf(heap, Ref(d)), TreeOf(heap, Ref(c)))
          /\ OldObjectsUnchanged
    /\ dkind = "deepcopy" =>
          /\ Reach(heap, c) \cap Reach(heap, d) = {}
          /\ last.op \in MutatingOps =>
                LET other == IF last.root = "d" THEN c ELSE d IN
                /\ TreeOf(heap, Ref(other)) = TreeOf(pre, Ref(other))
                /\ \A id \in Reach(pre, other) : heap[id] = pre[id]

\* a key was bound inside the sub-configuration d['s'] of a deep copy d, and
\* c['s'] does not have it
C11_Witness ==
    /\ dkind = "deepcopy"
    /\ last.op = "setitem"
    /\ last.root = "d"
    /\ last.path = <<"s">>
    /\ last.key = S1("b")
    /\ last.err = Ok
    /\ Has(heap[Lookup(heap[d].content, <<"s">>).id].content, <<"b">>)
    /\ ~Has(heap[Lookup(heap[c].content, <<"s">>).id].content, <<"b">>)

-----------------------------------------------------------------------------
(* C12 *)

\* no key of the mapping m is bound in configuration id
NoKeyBound(h, id, m) ==
    \A i \in 1..Len(m.items) : ~Bound(h, id, Str(m.items[i][1]))

\* every segment of every key of m is well formed
WellFormedKeys(m) ==
    \A i \in 1..Len(m.items) :
        \A j \in 1..Len(split(m.items[i][1])) : NameRule(split(m.items[i][1])[j])

IsPrefix(p, q) == Len(p) <= Len(q) /\ SubSeq(q, 1, Len(p)) = p

\* no key of m is the leading part of another key of m, or equal to it
PrefixFree(m) ==
    \A i, j \in 1..Len(m.items) :
        i # j => ~IsPrefix(split(m.items[i][1]), split(m.items[j][1]))

\* the mapping that binds every key of m to None
AllNone(m) == DictV([i \in 1..Len(m.items) |-> <<m.items[i][1], NoneV>>])

-----------------------------------------------------------------------------
(* C13 *)

\* what the attribute form of an item operation with outcome r must give: the
\* same heap and result when r succeeded, else AttributeError and no change
AsAttribute(r, h) ==
    IF r.err = Ok THEN <<r.h, Ok, r.ret>> ELSE <<h, "AttributeError", NoneV>>

\* C13: for a name that passes key validation, c.name = v, c.name and
\* del c.name do to the entries what c[name] = v, c[name] and del c[name] do,
\* a failure being raised as AttributeError and changing nothing; none of
\* them creates or changes an ordinary attribute of the object.
C13_AttributeMirrorsItem ==
    (/\ last.op \in {"setattr", "getattr", "delattr"}
     /\ validate_key(pre, last.recv, last.key.s) = Ok)
    =>
    /\ heap[last.recv].attrs = pre[last.recv].attrs
    /\ <<heap, last.err, last.ret>> =
         AsAttribute(CASE last.op = "setattr" ->
                            setitem(pre, last.recv, last.key, last.value)
                       [] last.op = "getattr" -> getitem(pre, last.recv, last.key)
                       [] last.op = "delattr" -> delitem(pre, last.recv, last.key),
                     pre)

-----------------------------------------------------------------------------
(* The directory loader (src/upsilonconf/dir/loader_dumper.py)             *)
(*                                                                         *)
(* A directory is the sequence of its files in the order the operating    *)
(* system lists them; a file is its name and the mapping its loader reads  *)
(* from it.  File names are strings like keys: sequences of characters.    *)

File(name, content) == [name |-> name, content |-> content]

\* DEFAULT_GLOB
DEFAULT_GLOB == <<"c", "o", "n", "f", "i", "g", ".", "*">>

\* the last dot of a name that is neither its first nor its last character,
\* 0 when there is none: where pathlib cuts the suffix off
SuffixDot(name) ==
    LET dots == {i \in 2..(Len(name) - 1) : name[i] = "."}
    IN  IF dots = {} THEN 0 ELSE CHOOSE i \in dots : \A j \in dots : j <= i

\* sub.stem
stem(name) ==
    IF SuffixDot(name) = 0 THEN name ELSE SubSeq(name, 1, SuffixDot(name) - 1)

\* whether path.glob(pattern) yields the name, for a pattern "<literal>*"
glob_match(pattern, name) ==
    LET lit == SubSeq(pattern, 1, Len(pattern) - 1)
    IN  /\ Len(name) >= Len(lit)
        /\ SubSeq(name, 1, Len(lit)) = lit

\* a mapping the loader works on: a plain dict (a value) or a Configuration
MapRes(h, err, ret, m) == [h |-> h, err |-> err, ret |-> ret, m |-> m]

\* key in base_conf
map_contains(h, m, key) ==
    IF m.t = "ref" THEN contains(h, m.id, Str(key))
    ELSE Res(h, Ok, BoolV(Has(m.items, key)))

\* base_conf.pop(key), for a key that base_conf holds
map_pop(h, m, key) ==
    LET popped(r) == MapRes(r.h, r.err, r.ret, m)
    IN  IF m.t = "ref" THEN popped(pop(h, m.id, Str(key), NoneV, FALSE))
        ELSE MapRes(h, Ok, Lookup(m.items, key), DictV(DictDel(m.items, key)))

\* base_conf[key] = value
map_setitem(h, m, key, value) ==
    LET bound(r) == MapRes(r.h, r.err, NoneV, m)
    IN  IF m.t = "ref" THEN bound(setitem(h, m.id, Str(key), value))
        ELSE MapRes(h, Ok, NoneV, DictV(DictSet(m.items, key, value)))

\* sub_conf.get(option): a missing option selects nothing and goes unreported
subscript_or_none(sub_conf, option) ==
    IF option.t = "str" /\ Has(sub_conf.items, option.s)
    THEN Res(<<>>, Ok, Lookup(sub_conf.items, option.s))
    ELSE Res(<<>>, Ok, NoneV)

\* sub_conf[option] on the dict read from a file: its keys are strings, and a
\* dict, a list or a Configuration cannot be hashed
subscript(sub_conf, option) ==
    IF option.t \in {"dict", "list", "ref"} THEN Res(<<>>, "TypeError", NoneV)
    ELSE IF option.t = "str" /\ Has(sub_conf.items, option.s)
    THEN Res(<<>>, Ok, Lookup(sub_conf.items, option.s))
    ELSE Res(<<>>, "KeyError", NoneV)

RECURSIVE load_loop(_, _, _)
\* the loop of DirLoader.load over the entries other than the base file
load_loop(h, base_conf, subs) ==
    LET key == stem(Head(subs).name)
        sub_conf == Head(subs).content
        rest(b) == IF b.err # Ok THEN Res(b.h, b.err, NoneV)
                   ELSE load_loop(b.h, b.m, Tail(subs))
        select(p, s) ==
            IF p.err # Ok THEN Res(p.h, p.err, NoneV)
            ELSE IF s.err \in {"KeyError", "TypeError"}
            THEN Res(p.h, "ValueError", NoneV)
            ELSE rest(map_setitem(p.h, p.m, key, s.ret))
        option(p) == select(p, IF p.err # Ok THEN p ELSE subscript(sub_conf, p.ret))
        found(i) ==
            IF i.err # Ok THEN Res(i.h, i.err, NoneV)
            ELSE IF i.ret.b THEN option(map_pop(i.h, base_conf, key))
            ELSE rest(map_setitem(i.h, base_conf, key, sub_conf))
    IN  IF subs = <<>> THEN Res(h, Ok, base_conf)
        ELSE found(map_contains(h, base_conf, key))

\* the place of the first file path.glob yields, 0 when it yields none
BaseIndex(files, pattern) ==
    LET hits == {i \in 1..Len(files) : glob_match(pattern, files[i].name)}
    IN  IF hits = {} THEN 0 ELSE CHOOSE i \in hits : \A j \in hits : i <= j

\* the files without the one at place i
Without(files, i) ==
    [j \in 1..(Len(files) - 1) |-> IF j < i THEN files[j] ELSE files[j + 1]]

\* DirLoader(loader, glob).load(path)
DirLoader_load(h, files, pattern) ==
    LET i == BaseIndex(files, pattern)
        start(b) == IF b.err # Ok THEN b
                    ELSE load_loop(b.h, b.ret, IF i = 0 THEN files ELSE Without(files, i))
    IN  start(IF i = 0 THEN Configuration(h, DictV(<<>>))
              ELSE Res(h, Ok, files[i].content))

(* Inputs: the directories loaded *)

ConfigJson == <<"c", "o", "n", "f", "i", "g", ".", "j", "s", "o", "n">>
ConfigBak == <<"c", "o", "n", "f", "i", "g", ".", "b", "a", "k">>
ModeJson == <<"m", "o", "d", "e", ".", "j", "s", "o", "n">>
SubJson == <<"s", "u", "b", ".", "j", "s", "o", "n">>
OneAJson == <<"1", "a", ".", "j", "s", "o", "n">>

FileNames == {ConfigJson, ConfigBak, ModeJson, SubJson, OneAJson}

Mode == <<"m", "o", "d", "e">>
Train == <<"t", "r", "a", "i", "n">>
Eval == <<"e", "v", "a", "l">>
Lr == <<"l", "r">>

FileContents ==
    { D1(Mode, StrV(Train)),
      D1(Mode, StrV(<<"t", "e", "s", "t">>)),
      D1(Mode, D1(<<"k">>, IntV(1))),
      D2(Mode, IntV(7), <<"s", "u", "b">>, StrV(Eval)),
      D2(Train, D1(Lr, IntV(1)), Eval, D1(Lr, IntV(0))),
      DictV(<<>>) }

\* the directories of one to three files with different names, in any order
Directories ==
    {<<File(n, x)>> : n \in FileNames, x \in FileContents}
    \cup {<<File(n[1], x[1]), File(n[2], x[2])>> :
            n \in {m \in FileNames \X FileNames : m[1] # m[2]},
            x \in FileContents \X FileContents}
    \cup {<<File(n[1], x[1]), File(n[2], x[2]), File(n[3], x[3])>> :
            n \in {m \in FileNames \X FileNames \X FileNames :
                     m[1] # m[2] /\ m[1] # m[3] /\ m[2] # m[3]},
            x \in FileContents \X FileContents \X FileContents}

(* The state machine of a load *)

DirInit ==
    /\ \E files \in Directories : world = [kind |-> "dir", files |-> files]
    /\ heap = <<>>
    /\ pre = heap
    /\ c = 0
    /\ d = 0
    /\ dkind = "none"
    /\ last = [op |-> "init", root |-> "c", path |-> <<>>, recv |-> 0,
               key |-> NoArg, value |-> NoArg, err |-> Ok, ret |-> NoneV]
    /\ steps = 0

\* DirLoader(JSONLoader()).load(path)
DoDirLoad ==
    /\ steps = 0
    /\ LET res == DirLoader_load(heap, world.files, DEFAULT_GLOB) IN
       /\ heap' = res.h
       /\ last' = [op |-> "load", root |-> "c", path |-> <<>>, recv |-> 0,
                   key |-> NoArg, value |-> NoArg, err |-> res.err, ret |-> res.ret]
    /\ pre' = heap
    /\ steps' = 1
    /\ UNCHANGED <<c, d, dkind, world>>

DirNext == DoDirLoad

DirSpec == DirInit /\ [][DirNext]_vars

(* Properties of a load *)

\* a dict as the set of its <<key, value>> pairs
AsMap(items) == {items[i] : i \in 1..Len(items)}

\* whether the mapping read from a file has an entry for the option
Selects(content, option) == option.t = "str" /\ Has(content.items, option.s)

RECURSIVE Assembled(_, _)
\* the mapping a directory stands for, from the pairs of its base file and its
\* other entries: an entry's stem is bound to its content where the base does
\* not bind it, and to the entry its option selects where the base does
Assembled(base, entries) ==
    LET k == stem(Head(entries).name)
        x == Head(entries).content
        bound == {p \in base : p[1] = k}
        o == (CHOOSE p \in bound : TRUE)[2]
    IN  IF entries = <<>> THEN [ok |-> TRUE, map |-> base]
        ELSE IF bound = {}
        THEN Assembled(base \cup {<<k, x>>}, Tail(entries))
        ELSE IF Selects(x, o)
        THEN Assembled((base \ bound) \cup {<<k, Lookup(x.items, o.s)>>}, Tail(entries))
        ELSE [ok |-> FALSE, map |-> {}]

\* the directory has a file the glob matches
HasBase == BaseIndex(world.files, DEFAULT_GLOB) # 0

\* what the directory of the state stands for
Wanted ==
    Assembled(AsMap(world.files[BaseIndex(world.files, DEFAULT_GLOB)].content.items),
              Without(world.files, BaseIndex(world.files, DEFAULT_GLOB)))

\* C14: loading a directory that has a file matching config.* gives the
\* content of the first such file as the base, with the stem of every other
\* entry bound to that entry's content where the base did not bind the stem,
\* and to the entry selected by the base's value for the stem where it did;
\* the load raises ValueError exactly when some entry has nothing for the
\* option the base names.
C14_DirectoryAssembly ==
    (last.op = "load" /\ HasBase) =>
        IF Wanted.ok
        THEN /\ last.err = Ok
             /\ last.ret.t = "dict"
             /\ AsMap(last.ret.items) = Wanted.map
             /\ Cardinality(KeySet(last.ret.items)) = Len(last.ret.items)
        ELSE last.err = "ValueError"

\* config.json = {mode: train} and mode.json = {train: {lr: 1}, eval: {lr: 0}}
\* were loaded as {mode: {lr: 1}}
C14_Witness ==
    /\ last.op = "load"
    /\ world.files = <<File(ConfigJson, D1(Mode, StrV(Train))),
                       File(ModeJson, D2(Train, D1(Lr, IntV(1)), Eval, D1(Lr, IntV(0))))>>
    /\ last.err = Ok
    /\ last.ret = D1(Mode, D1(Lr, IntV(1)))

\* a load failed because mode.json has no entry for the option of config.json
C14_WitnessMismatch ==
    /\ last.op = "load"
    /\ HasBase
    /\ ~Wanted.ok
    /\ last.err = "ValueError"

-----------------------------------------------------------------------------
(* The command line (src/upsilonconf/cli/cli.py)                           *)
(*                                                                         *)
(* A command line is a sequence of tokens, each a sequence of characters;  *)
(* the registry of loaders is a dict from suffix to loader; the files are  *)
(* a dict from file name to the mapping a loader reads from the file.      *)

\* "--config"
ConfigFlag == <<"-", "-", "c", "o", "n", "f", "i", "g">>

\* ns.config.suffix
suffix(name) ==
    IF SuffixDot(name) = 0 THEN <<>> ELSE SubSeq(name, SuffixDot(name), Len(name))

\* the place of the first "=" of a token, 0 when it has none
FirstEq(s) ==
    LET eqs == {i \in 1..Len(s) : s[i] = "="}
    IN  IF eqs = {} THEN 0 ELSE CHOOSE i \in eqs : \A j \in eqs : i <= j

\* the value of a digit
DigitValue(ch) ==
    CHOOSE n \in 0..9 : <<"0", "1", "2", "3", "4", "5", "6", "7", "8", "9">>[n + 1] = ch

RECURSIVE IntOf(_, _)
\* the number a sequence of digits denotes, after the digits read so far
IntOf(s, acc) ==
    IF s = <<>> THEN acc ELSE IntOf(Tail(s), 10 * acc + DigitValue(Head(s)))

\* json.loads(val) for the texts a token of the model holds: an integer
\* without sign or leading zero, null, true or false; any other text made of
\* letters, digits, "=" and "." is no JSON (floats, NaN and Infinity are not
\* among the texts of the model)
json_loads(val) ==
    IF val = <<"n", "u", "l", "l">> THEN Res(<<>>, Ok, NoneV)
    ELSE IF val = <<"t", "r", "u", "e">> THEN Res(<<>>, Ok, BoolV(TRUE))
    ELSE IF val = <<"f", "a", "l", "s", "e">> THEN Res(<<>>, Ok, BoolV(FALSE))
    ELSE IF /\ Len(val) > 0
            /\ \A i \in 1..Len(val) : val[i] \in Digits
            /\ (Len(val) = 1 \/ val[1] # "0")
    THEN Res(<<>>, Ok, IntV(IntOf(val, 0)))
    ELSE Res(<<>>, "JSONDecodeError", NoneV)

\* assignment_expr(s): the tuple (key, val), ValueError when s has no "="
assignment_expr(s) ==
    LET key == SubSeq(s, 1, FirstEq(s) - 1)
        val == SubSeq(s, FirstEq(s) + 1, Len(s))
    IN  IF FirstEq(s) = 0 THEN Res(<<>>, "ValueError", NoneV)
        ELSE IF json_loads(val).err = Ok
        THEN Res(<<>>, Ok, ListV(<<StrV(key), json_loads(val).ret>>))
        ELSE Res(<<>>, Ok, ListV(<<StrV(key), StrV(val)>>))

\* _parser.parse_args(args), for a command line with at most one --config:
\* [err, config, overrides], config being <<>> for None and <<FILE>> otherwise.
\* argparse exits when --config is no option of the parser, when no FILE
\* follows it, when KEY=VALUE tokens stand on both sides of it, and when the
\* type function of a token raises ValueError
parse_args(argv, offered) ==
    LET flags == {i \in 1..Len(argv) : argv[i] = ConfigFlag}
        at == CHOOSE i \in flags : TRUE
        before == IF flags = {} THEN argv ELSE SubSeq(argv, 1, at - 1)
        after == IF flags = {} THEN <<>> ELSE SubSeq(argv, at + 2, Len(argv))
        tokens == before \o after
        exit == [err |-> "SystemExit", config |-> <<>>, overrides |-> <<>>]
    IN  IF flags # {} /\ ~offered THEN exit
        ELSE IF flags # {} /\ at = Len(argv) THEN exit
        ELSE IF before # <<>> /\ after # <<>> THEN exit
        ELSE IF \E i \in 1..Len(tokens) : assignment_expr(tokens[i]).err # Ok THEN exit
        ELSE [err |-> Ok,
              config |-> IF flags = {} THEN <<>> ELSE <<argv[at + 1]>>,
              overrides |-> [i \in 1..Len(tokens) |-> assignment_expr(tokens[i]).ret]]

\* the loaders a registry holds: JSONLoader, whose load returns the dict that
\* json.load gives, and upsilonconf.io, whose load returns a Configuration
JSONLoader == "JSONLoader"
IoLoader == "upsilonconf.io"

\* loader.load(path)
loader_load(h, loader, files, path) ==
    IF ~Has(files, path) THEN Res(h, "FileNotFoundError", NoneV)
    ELSE IF loader = JSONLoader THEN Res(h, Ok, Lookup(files, path))
    ELSE Configuration(h, Lookup(files, path))

\* CLI(loaders).from_cli(args)
from_cli(h, loaders, argv, files) ==
    LET ns == parse_args(argv, loaders # <<>>)
        \* config.overwrite_all(ns.overrides); return config
        done(config, ow) == Res(ow.h, ow.err, IF ow.err = Ok THEN config ELSE NoneV)
        apply(l) ==
            IF l.err # Ok THEN l
            ELSE IF l.ret.t # "ref" THEN Res(l.h, "AttributeError", NoneV)
            ELSE done(l.ret, overwrite_all(l.h, l.ret.id, ListV(ns.overrides), <<>>))
    IN  IF ns.err # Ok THEN Res(h, ns.err, NoneV)
        \* ns.config, when --config was not added to the parser
        ELSE IF loaders = <<>> THEN Res(h, "AttributeError", NoneV)
        ELSE IF ns.config = <<>> THEN apply(Configuration(h, DictV(<<>>)))
        \* argparse.error, which the module argparse does not have
        ELSE IF ~Has(loaders, suffix(ns.config[1])) THEN Res(h, "AttributeError", NoneV)
        ELSE apply(loader_load(h, Lookup(loaders, suffix(ns.config[1])), files, ns.config[1]))

(* Inputs: the command lines parsed *)

DotJson == <<".", "j", "s", "o", "n">>
BaseJson == <<"b", "a", "s", "e", ".", "j", "s", "o", "n">>
BaseYaml == <<"b", "a", "s", "e", ".", "y", "a", "m", "l">>

Registries ==
    { <<>>,
      << <<DotJson, JSONLoader>> >>,
      << <<DotJson, IoLoader>> >>,
      << <<DotJson, JSONLoader>>, <<<<".", "y", "a", "m", "l">>, IoLoader>> >> }

\* the content of base.json and base.yaml
BaseContents ==
    { D2(<<"a">>, D1(<<"b">>, IntV(0)), <<"d">>, IntV(4)),
      D1(<<"c">>, IntV(3)) }

\* a.b=1, c=hi, a=hi, d=x=y, e=null, d=01 and a token without "="
Tokens ==
    { <<"a", ".", "b", "=", "1">>,
      <<"c", "=", "h", "i">>,
      <<"a", "=", "h", "i">>,
      <<"d", "=", "x", "=", "y">>,
      <<"e", "=", "n", "u", "l", "l">>,
      <<"d", "=", "0", "1">>,
      <<"n", "o", "e", "q">> }

TokenLists ==
    {<<>>} \cup {<<t>> : t \in Tokens} \cup {<<t, u>> : t \in Tokens, u \in Tokens}

\* the tokens alone, with --config FILE before, after or among them, and with
\* a --config that no FILE follows
CommandLines ==
    TokenLists
    \cup {<<ConfigFlag, f>> \o ts : f \in {BaseJson, BaseYaml}, ts \in TokenLists}
    \cup {ts \o <<ConfigFlag, f>> : f \in {BaseJson, BaseYaml}, ts \in TokenLists}
    \cup {<<t, ConfigFlag, f, u>> : f \in {BaseJson, BaseYaml}, t \in Tokens, u \in Tokens}
    \cup {ts \o <<ConfigFlag>> : ts \in TokenLists}

(* The state machine of a command line *)

CliInit ==
    /\ \E loaders \in Registries, argv \in CommandLines, x \in BaseContents :
         world = [kind |-> "cli", loaders |-> loaders, argv |-> argv,
                  files |-> << <<BaseJson, x>>, <<BaseYaml, x>> >>]
    /\ heap = <<>>
    /\ pre = heap
    /\ c = 0
    /\ d = 0
    /\ dkind = "none"
    /\ last = [op |-> "init", root |-> "c", path |-> <<>>, recv |-> 0,
               key |-> NoArg, value |-> NoArg, err |-> Ok, ret |-> NoneV]
    /\ steps = 0

\* CLI(loaders).from_cli(argv)
DoFromCli ==
    /\ steps = 0
    /\ LET res == from_cli(heap, world.loaders, world.argv, world.files) IN
       /\ heap' = res.h
       /\ last' = [op |-> "from_cli", root |-> "c", path |-> <<>>, recv |-> 0,
                   key |-> NoArg, value |-> NoArg, err |-> res.err, ret |-> res.ret]
    /\ pre' = heap
    /\ steps' = 1
    /\ UNCHANGED <<c, d, dkind, world>>

CliNext == DoFromCli

CliSpec == CliInit /\ [][CliNext]_vars

(* Properties of a command line *)

\* the places of --config in the command line
FlagPlaces == {i \in 1..Len(world.argv) : world.argv[i] = ConfigFlag}

\* --config FILE is part of the command line
ConfigGiven == \E i \in FlagPlaces : i < Len(world.argv)

\* the FILE of --config FILE
ConfigFile == world.argv[(CHOOSE i \in FlagPlaces : TRUE) + 1]

\* the KEY=VALUE tokens of the command line, in order
OverrideTokens ==
    SelectSeq([i \in 1..Len(world.argv) |->
                 IF i \in FlagPlaces \/ (i - 1) \in FlagPlaces THEN <<>> ELSE world.argv[i]],
              LAMBDA t : t # <<>>)

\* the command line is KEY=VALUE tokens with at most one --config FILE at
\* its start or at its end
PlainCommandLine ==
    /\ \A i \in FlagPlaces : i < Len(world.argv) /\ i \in {1, Len(world.argv) - 1}
    /\ \A i \in 1..Len(OverrideTokens) : FirstEq(OverrideTokens[i]) # 0

\* a loader is registered for the suffix of FILE
LoaderRegistered == Has(world.loaders, suffix(ConfigFile))

\* the base the claim names, with every KEY overwritten by its VALUE in order
Overwritten(base) ==
    overwrite_all(Configuration(<<>>, base).h, 1,
                  ListV([i \in 1..Len(OverrideTokens) |->
                           assignment_expr(OverrideTokens[i]).ret]), <<>>)

\* the result is a Configuration equal to the base overwritten, or the
\* exception that the overwriting raises
ResultIsOverwritten(base) ==
    IF Overwritten(base).err = Ok
    THEN /\ last.err = Ok
         /\ last.ret.t = "ref"
         /\ TreeOf(heap, last.ret) = TreeOf(Overwritten(base).h, Ref(1))
    ELSE last.err = Overwritten(base).err

\* C15: with loaders registered, a command line of KEY=VALUE tokens gives the
\* empty Configuration with every KEY overwritten by its VALUE in token
\* order, and with --config FILE, whose suffix has a loader, the content of
\* FILE overwritten in the same way.
C15_CliAssembly ==
    (last.op = "from_cli" /\ PlainCommandLine /\ world.loaders # <<>>) =>
        /\ ~ConfigGiven => ResultIsOverwritten(DictV(<<>>))
        /\ (ConfigGiven /\ LoaderRegistered) =>
               ResultIsOverwritten(Lookup(world.files, ConfigFile))

\* C16: a --config FILE whose suffix has no loader in a registry that holds
\* some loader ends in the exit of a usage error and in no other exception;
\* with an empty registry a command line of KEY=VALUE tokens gives the empty
\* Configuration overwritten by them.
C16_UnknownSuffixExits ==
    (last.op = "from_cli" /\ PlainCommandLine) =>
        /\ (world.loaders # <<>> /\ ConfigGiven /\ ~LoaderRegistered) =>
               last.err = "SystemExit"
        /\ (world.loaders = <<>> /\ ~ConfigGiven) => ResultIsOverwritten(DictV(<<>>))

-----------------------------------------------------------------------------
(* Failed writes *)

\* the tree below the receiver of the last operation is what it was before
ReceiverUnchanged == TreeOf(heap, Ref(last.recv)) = TreeOf(pre, Ref(last.recv))

\* C17: an item assignment r[key] = value that raises leaves the tree of r
\* exactly as it was before the call; no sub-configuration named by the key
\* has been created.
C17_FailedSetItemChangesNothing ==
    (last.op = "setitem" /\ last.err # Ok) => ReceiverUnchanged

\* C18: a call r.overwrite(key, value) that raises leaves the tree of r
\* exactly as it was before the call: key is bound to the value it had and
\* no other binding has changed.
C18_FailedOverwriteChangesNothing ==
    (last.op = "overwrite" /\ last.err # Ok) => ReceiverUnchanged

=============================================================================
